---- MODULE Spec2Model ----
(***************************************************************************)
(* Model of ResearchService (src/research_service.py): query generation,  *)
(* the concurrent search fan-out over the finding cache, deduplication,   *)
(* ranking, the concurrent content fetch and the fact extraction.         *)
(*                                                                         *)
(* Abstractions, all order- and equality-preserving:                      *)
(*  - relevance_score 1.0 - position*0.1 is kept as the integer           *)
(*    10 - position (same order, same ties);                              *)
(*  - the md5 cache key of "provider:query" / url is kept as the pair     *)
(*    (file prefix, query or url): the provider is fixed in a run and md5 *)
(*    is treated as collision free;                                       *)
(*  - a page text is kept as its length in characters;                    *)
(*  - full_content of the Finding objects of `unique` is kept in the map  *)
(*    full_content, keyed by url (unique holds one object per url, and    *)
(*    only objects of unique are ever content-fetched);                   *)
(*  - an LLM response text is a sequence of tokens: code fences, prose,   *)
(*    and JSON values.                                                    *)
(***************************************************************************)
EXTENDS Integers, Sequences, FiniteSets, TLC

\* ------------------------------------------------------------------ bounds
\* largest configured search.top_pages_to_fetch explored
MaxTopN == 2

\* ------------------------------------------------------- program constants
\* queries[:4]
MaxQueries == 4
\* findings[:8]
MaxSources == 8
\* .strip()[:8000]
ContentCap == 8000

Topic == "T"
None == "None"

Min(a, b) == IF a < b THEN a ELSE b

\* s[:n] of Python for n >= 0
Take(s, n) == SubSeq(s, 1, Min(n, Len(s)))

\* --------------------------------------------------------------- JSON model
\* A JSON value: type is "list", "object", "string"; a list carries items,
\* an object carries the set of its keys and the values of the keys read by
\* the code.
JList(items) ==
    [type |-> "list", items |-> items, keys |-> {},
     key_facts |-> <<>>, structured_summary |-> "", query_used |-> ""]
JString ==
    [type |-> "string", items |-> <<>>, keys |-> {},
     key_facts |-> <<>>, structured_summary |-> "", query_used |-> ""]
JObject(keys, facts, summary, query) ==
    [type |-> "object", items |-> <<>>, keys |-> keys,
     key_facts |-> facts, structured_summary |-> summary, query_used |-> query]

\* Tokens of an LLM response text.
Fence == [kind |-> "fence", val |-> JString]
FenceJson == [kind |-> "fence_json", val |-> JString]
Prose == [kind |-> "prose", val |-> JString]
Value(v) == [kind |-> "value", val |-> v]

\* re.sub(r"^```(?:json)?\s*|\s*```$", "", resp.text.strip()): removes one
\* opening fence at the very start and one closing fence at the very end.
StripFences(text) ==
    LET a == IF Len(text) > 0 /\ Head(text).kind \in {"fence", "fence_json"}
             THEN Tail(text) ELSE text
    IN  IF Len(a) > 0 /\ a[Len(a)].kind = "fence"
        THEN SubSeq(a, 1, Len(a) - 1) ELSE a

\* json.loads: succeeds exactly on a text that is one JSON value.
JsonDecodes(raw) == Len(raw) = 1 /\ raw[1].kind = "value"
JsonLoads(raw) == raw[1].val

\* dict.get(key, default) for the three keys _extract_facts reads
GetKeyFacts(data) == IF "key_facts" \in data.keys THEN data.key_facts ELSE <<>>
GetSummary(data) ==
    IF "structured_summary" \in data.keys THEN data.structured_summary ELSE ""
GetQueryUsed(data, topic) ==
    IF "query_used" \in data.keys THEN data.query_used ELSE topic

\* ------------------------------------------------------- _generate_queries
Fallback(topic) == <<topic, topic \o " announcement", topic \o " review">>

GenerateQueriesNoCap(topic, text) ==
    LET raw == StripFences(text)
    IN  IF JsonDecodes(raw)
        THEN IF JsonLoads(raw).type = "list"
             THEN JsonLoads(raw).items
             ELSE <<topic>>
        ELSE Fallback(topic)

GenerateQueries(topic, text) ==
    LET raw == StripFences(text)
    IN  IF JsonDecodes(raw)
        THEN IF JsonLoads(raw).type = "list"
             THEN Take(JsonLoads(raw).items, MaxQueries)
             ELSE <<topic>>
        ELSE Fallback(topic)

\* ------------------------------------------------ search provider results
\* What BaseSearchProvider.search may return: every provider numbers its
\* items with position = enumerate index (src/providers.py).
RawResults(urls, snippet) ==
    [i \in 1..Len(urls) |-> [url |-> urls[i], snippet |-> snippet, position |-> i - 1]]

ResultMenu ==
    << RawResults(<<"u1", "u2">>, "a"),
       RawResults(<<"u2", "u1">>, "b"),
       RawResults(<<"u3", "u3", "u1">>, "c"),
       RawResults(<<"u1", "u2", "u3", "u4", "u5", "u6", "u7", "u8", "u9">>, "d"),
       RawResults(<<>>, "e"),
       RawResults(<<"u10">>, "f") >>

\* The answers the provider may give to a query (by index in ResultMenu); a
\* repeated query may be answered differently each time it is asked.
ProviderAnswers(q) ==
    CASE q = "q1" -> {1}
      [] q = "q2" -> {2, 4}
      [] q = "q3" -> {3, 6}
      [] q = "T" -> {1, 5}
      [] q = "T announcement" -> {3}
      [] OTHER -> {2}

Urls == {"u1", "u2", "u3", "u4", "u5", "u6", "u7", "u8", "u9", "u10"}

\* Lengths of the tag-stripped, whitespace-collapsed text of a fetched page
PageLens == {0, 9000}

\* ResearchFinding(title, url, snippet, relevance_score=1.0 - position*0.1);
\* the title travels with the snippet and is not kept.
ToFindings(raw) ==
    [i \in 1..Len(raw) |->
        [url |-> raw[i].url, snippet |-> raw[i].snippet,
         relevance_score |-> 10 - raw[i].position]]

\* cache_path.exists()
CacheNeverExists(cache, key) == FALSE
CacheExists(cache, key) == key \in DOMAIN cache

\* cache_path.write_text(...)
CacheWrite(cache, key, val) ==
    [k \in DOMAIN cache \cup {key} |-> IF k = key THEN val ELSE cache[k]]

\* text = re.sub(...).strip()[:8000]
PageText(len) == Min(len, ContentCap)

\* -------------------------------------------------- gather, merge, dedupe
\* asyncio.gather(*tasks, return_exceptions=True): the i-th value is the
\* outcome of the i-th awaitable, whatever the order of completion.
GatherAsCompleted(tasks, order) == [k \in 1..Len(order) |-> tasks[order[k]]]
GatherResults(tasks, order) == [i \in 1..Len(tasks) |-> tasks[i]]

\* for r in results: if not isinstance(r, Exception): all_findings.extend(r)
RECURSIVE MergeAbortOnFailure(_)
MergeAbortOnFailure(results) ==
    IF Len(results) = 0 \/ Head(results).stat = "failed" THEN <<>>
    ELSE Head(results).res \o MergeAbortOnFailure(Tail(results))

RECURSIVE MergeResults(_)
MergeResults(results) ==
    IF Len(results) = 0 THEN <<>>
    ELSE (IF Head(results).stat = "failed" THEN <<>> ELSE Head(results).res)
         \o MergeResults(Tail(results))

\* unique = [f for f in all_findings if not (f.url in seen or seen.add(f.url))]
RECURSIVE DedupeFrom(_, _)
DedupeFrom(fs, seen) ==
    IF Len(fs) = 0 THEN <<>>
    ELSE IF Head(fs).url \in seen
         THEN DedupeFrom(Tail(fs), seen)
         ELSE <<Head(fs)>> \o DedupeFrom(Tail(fs), seen \cup {Head(fs).url})

RECURSIVE DedupeLastWins(_)
DedupeLastWins(fs) ==
    IF Len(fs) = 0 THEN <<>>
    ELSE IF \E j \in 2..Len(fs) : fs[j].url = Head(fs).url
         THEN DedupeLastWins(Tail(fs))
         ELSE <<Head(fs)>> \o DedupeLastWins(Tail(fs))

DedupeNone(fs) == fs

Dedupe(fs) == DedupeFrom(fs, {})

\* sorted(unique, key=lambda x: x.relevance_score, reverse=True): stable,
\* equal scores keep their original order.
RECURSIVE InsertDesc(_, _)
InsertDesc(sorted, f) ==
    IF Len(sorted) = 0 THEN <<f>>
    ELSE IF Head(sorted).relevance_score >= f.relevance_score
         THEN <<Head(sorted)>> \o InsertDesc(Tail(sorted), f)
         ELSE <<f>> \o sorted

RECURSIVE InsertDescBeforeTies(_, _)
InsertDescBeforeTies(sorted, f) ==
    IF Len(sorted) = 0 THEN <<f>>
    ELSE IF Head(sorted).relevance_score > f.relevance_score
         THEN <<Head(sorted)>> \o InsertDescBeforeTies(Tail(sorted), f)
         ELSE <<f>> \o sorted

RECURSIVE SortedDescUnstable(_)
SortedDescUnstable(fs) ==
    IF Len(fs) = 0 THEN <<>>
    ELSE InsertDescBeforeTies(SortedDescUnstable(SubSeq(fs, 1, Len(fs) - 1)), fs[Len(fs)])

RECURSIVE SortedDesc(_)
SortedDesc(fs) ==
    IF Len(fs) = 0 THEN <<>>
    ELSE InsertDesc(SortedDesc(SubSeq(fs, 1, Len(fs) - 1)), fs[Len(fs)])

\* sorted(...)[:top_n]
TopOf(fs, n) == Take(SortedDesc(fs), n)

\* ------------------------------------------------------------ LLM responses
\* Texts cfg.llm.complete may return for the query-generation prompt.
GenTexts ==
    << <<Value(JList(<<"q1", "q2">>))>>,
       <<FenceJson, Value(JList(<<"q2", "q2">>)), Fence>>,
       <<Value(JList(<<"q1", "q2", "q3", "q1", "q2">>))>>,
       <<Value(JList(<<>>))>>,
       <<Value(JObject({"queries"}, <<>>, "", ""))>>,
       <<Value(JString)>>,
       <<Prose, Value(JList(<<"q1", "q2">>))>>,
       <<Prose>> >>

\* Texts cfg.llm.complete may return for the fact-extraction prompt.
ExtractTexts ==
    << <<Value(JObject({"key_facts", "structured_summary", "query_used"},
                       <<"fact1", "fact2">>, "summary", "q1"))>>,
       <<FenceJson, Value(JObject({"key_facts"}, <<"fact1">>, "", "")), Fence>>,
       <<Value(JList(<<"fact1">>))>>,
       <<Value(JString)>>,
       <<Prose>> >>

\* ------------------------------------------------------------------- state
VARIABLES
    pc,            \* position of research(): start, searching, fetching, done, raised
    top_n,         \* cfg._raw["search"]["top_pages_to_fetch"]
    searchCache,   \* files cache_dir/search_<md5>.json, by query
    pageCache,     \* files cache_dir/page_<md5>.txt, by url
    genText,       \* LLM response of _generate_queries
    queries,       \* the queries research() issues
    stasks,        \* the _search_cached tasks of the first gather, in issue order
    completed,     \* indices of stasks in their order of completion
    all_findings,  \* merged findings
    unique,        \* deduplicated findings
    top,           \* findings selected for content fetch
    ftasks,        \* the _fetch_content tasks of the second gather, in issue order
    full_content,  \* full_content of the Finding of unique with that url
    searchWrites,  \* log of the writes to search_* files in this run
    pageWrites,    \* log of the writes to page_* files in this run
    extractText,   \* LLM response of _extract_facts
    sources,       \* the findings put in the prompt of _extract_facts
    result,        \* the ResearchResult returned
    error          \* the exception research() raised

researchVars ==
    <<pc, top_n, searchCache, pageCache, genText, queries, stasks, completed,
      all_findings, unique, top, ftasks, full_content, searchWrites,
      pageWrites, extractText, sources, result, error>>

\* ScriptService (src/script_service.py)
VARIABLES
    spc,               \* position of generate_script(): start, parsing, done, raised
    words_per_minute,  \* cfg.words_per_minute
    scriptText,        \* LLM response of generate_script
    sections,          \* the ScriptSection list _parse has built so far
    t_run,             \* the running start time t of _parse, in milliseconds
    script,            \* the VideoScript returned
    serror             \* the exception generate_script() raised

scriptVars == <<spc, words_per_minute, scriptText, sections, t_run, script, serror>>

\* run_generate and PipelineOrchestrator (src/main.py, src/orchestrator.py)
VARIABLES
    rpc,            \* position: load, set, ready, running, handling, returned, crashed
    base,           \* pipeline.json as read from CONFIG_PATH
    overrides,      \* the --set override of the command line
    topic_overrides, \* the "overrides" of the --topic-file document
    cfg,            \* the RuntimeConfig built
    lookups,        \* the provider factory calls made so far, in order
    cerror,         \* the exception that left run_generate
    step,           \* the step of run() to execute next, 1..7; 8 after the last
    pipeline_log,   \* result.pipeline_log
    success,        \* result.success
    error_message,  \* result.error_message
    video_path,     \* result.video_path
    n_visuals,      \* len(raw_visuals)
    raised          \* the exception a step of run() raised

runVars ==
    <<rpc, base, overrides, topic_overrides, cfg, lookups, cerror, step, pipeline_log, success,
      error_message, video_path, n_visuals, raised>>

\* SyncService.assign_timings (called at src/orchestrator.py:68)
VARIABLES
    ypc,               \* position of assign_timings: start, timing, done
    sy_script,         \* the sections of the script passed in
    chunks,            \* the VoiceChunks passed in, one per section
    availableVisuals,  \* the captured visuals passed in
    sy_i,              \* the section the loop is at
    sy_start,          \* the running actual start time
    timed,             \* the TimedAssets built so far
    sy_calls,          \* how many calls of assign_timings have returned
    sy_first           \* the TimedAssets the first call returned

syncVars ==
    <<ypc, sy_script, chunks, availableVisuals, sy_i, sy_start, timed,
      sy_calls, sy_first>>

\* the state of the other components, which research() does not touch
nonResearchVars == <<scriptVars, runVars, syncVars>>

\* the state of the other components, which ScriptService does not touch
nonScriptVars == <<researchVars, runVars, syncVars>>

\* the state of the other components, which run_generate does not touch
nonRunVars == <<researchVars, scriptVars, syncVars>>

\* the state of the other components, which assign_timings does not touch
nonSyncVars == <<researchVars, scriptVars, runVars>>

vars == <<researchVars, nonResearchVars>>

NoText == <<>>
\* full_content: None, or a text of len characters
Unset == [set |-> FALSE, len |-> 0]
Content(n) == [set |-> TRUE, len |-> n]
NoResult ==
    [topic |-> "", query_used |-> "", findings |-> <<>>, key_facts |-> <<>>,
     structured_summary |-> "", relevant_urls |-> <<>>]

\* Cache directories left by earlier runs: the cache outlives the run, and
\* every entry is one that _search_cached / _fetch_content writes.
EmptyCache == [k \in {} |-> 0]
InitCaches ==
    { [search |-> EmptyCache, page |-> EmptyCache],
      [search |-> [k \in {"q1"} |-> ToFindings(ResultMenu[1])],
       page |-> [k \in {"u2"} |-> PageText(9000)]] }

NoScript ==
    [topic |-> "", title |-> "", sections |-> <<>>, full_text |-> <<>>,
     total_estimated_seconds |-> 0]

\* words_per_minute of config/pipeline.json, the rate the prompt names
DefaultWpm == 150

\* ScriptService not running
ScriptIdle ==
    /\ spc = "start"
    /\ words_per_minute = DefaultWpm
    /\ scriptText = <<>>
    /\ sections = <<>>
    /\ t_run = 0
    /\ script = NoScript
    /\ serror = None

\* a raw configuration: the provider names, the keys of the llm.model and
\* voice.model maps, and the quality_checks object (its keys and values)
RawConfig(llm, llm_models, search, voice, voice_models, qc) ==
    [llm |-> llm, llm_models |-> llm_models, search |-> search,
     voice |-> voice, voice_models |-> voice_models, qc |-> qc]
QualityChecks(keys, enabled, min_visual_assets) ==
    [keys |-> keys, enabled |-> enabled, min_visual_assets |-> min_visual_assets]

NoOverride == [key |-> "", value |-> ""]
NoCfg ==
    [llm |-> "", search |-> "", voice |-> "",
     quality_checks_enabled |-> FALSE, min_visual_assets |-> 0]
NoExc == [step |-> 0, exc |-> "", msg |-> "", log |-> <<>>]

\* run_generate not started, on a configuration with known providers
RunIdle ==
    /\ rpc = "load"
    /\ base = RawConfig("claude", {"claude", "openai", "gemini"}, "google",
                        "azure", {"elevenlabs", "openai_tts", "azure"},
                        QualityChecks({}, TRUE, 0))
    /\ overrides = NoOverride
    /\ topic_overrides = NoOverride
    /\ cfg = NoCfg
    /\ lookups = <<>>
    /\ cerror = None
    /\ step = 0
    /\ pipeline_log = <<>>
    /\ success = FALSE
    /\ error_message = None
    /\ video_path = None
    /\ n_visuals = 0
    /\ raised = NoExc

\* assign_timings not called
SyncIdle ==
    /\ ypc = "start"
    /\ sy_script = <<>>
    /\ chunks = <<>>
    /\ availableVisuals = {}
    /\ sy_i = 1
    /\ sy_start = 0
    /\ timed = <<>>
    /\ sy_calls = 0
    /\ sy_first = <<>>

Init ==
    /\ ScriptIdle
    /\ RunIdle
    /\ SyncIdle
    /\ pc = "start"
    /\ top_n \in 0..MaxTopN
    /\ \E c \in InitCaches : searchCache = c.search /\ pageCache = c.page
    /\ genText = NoText
    /\ queries = <<>>
    /\ stasks = <<>>
    /\ completed = <<>>
    /\ all_findings = <<>>
    /\ unique = <<>>
    /\ top = <<>>
    /\ ftasks = <<>>
    /\ full_content = [u \in Urls |-> Unset]
    /\ searchWrites = {}
    /\ pageWrites = {}
    /\ extractText = NoText
    /\ sources = <<>>
    /\ result = NoResult
    /\ error = None

\* ------------------------------------------------------------------ actions
NewSearchTask(q) ==
    [query |-> q, stat |-> "new", hit |-> FALSE, called |-> FALSE, res |-> <<>>]
NewFetchTask(f) ==
    [url |-> f.url, stat |-> "new", hit |-> FALSE, called |-> FALSE, outcome |-> "none"]

Finished(tasks) == \A i \in 1..Len(tasks) : tasks[i].stat \in {"ok", "failed"}
Started(tasks) == \A i \in 1..Len(tasks) : tasks[i].stat # "new"

\* research(), lines 31-41: queries = await self._generate_queries(topic), then
\* one _search_cached task per query is handed to asyncio.gather.
GenerateQueriesStep ==
    /\ pc = "start"
    /\ \E t \in 1..Len(GenTexts) :
        /\ genText' = GenTexts[t]
        /\ queries' = GenerateQueries(Topic, GenTexts[t])
        /\ stasks' = [i \in 1..Len(GenerateQueries(Topic, GenTexts[t])) |->
                        NewSearchTask(GenerateQueries(Topic, GenTexts[t])[i])]
    /\ pc' = "searching"
    /\ UNCHANGED <<sources, nonResearchVars>>
    /\ UNCHANGED <<top_n, searchCache, pageCache, completed, all_findings, unique,
                   top, ftasks, full_content, searchWrites, pageWrites,
                   extractText, result, error>>

\* The event loop starts the tasks of a gather in issue order and runs each up
\* to its first suspension, so every task has looked the cache up before any
\* awaited search returns.
CanLookup(tasks, i) ==
    /\ tasks[i].stat = "new"
    /\ \A j \in 1..(i - 1) : tasks[j].stat # "new"

\* _search_cached, lines 70-73: cache hit, the file is read and parsed.
SearchLookupHit(i) ==
    /\ pc = "searching"
    /\ CanLookup(stasks, i)
    /\ CacheExists(searchCache, stasks[i].query)
    /\ stasks' = [stasks EXCEPT ![i].stat = "ok", ![i].hit = TRUE,
                                ![i].res = searchCache[stasks[i].query]]
    /\ completed' = Append(completed, i)
    /\ UNCHANGED <<sources, nonResearchVars>>
    /\ UNCHANGED <<pc, top_n, searchCache, pageCache, genText, queries,
                   all_findings, unique, top, ftasks, full_content, searchWrites,
                   pageWrites, extractText, result, error>>

\* _search_cached, line 73: the cache file exists but reading it raises.
SearchLookupReadFail(i) ==
    /\ pc = "searching"
    /\ CanLookup(stasks, i)
    /\ CacheExists(searchCache, stasks[i].query)
    /\ stasks' = [stasks EXCEPT ![i].stat = "failed", ![i].hit = TRUE]
    /\ completed' = Append(completed, i)
    /\ UNCHANGED <<sources, nonResearchVars>>
    /\ UNCHANGED <<pc, top_n, searchCache, pageCache, genText, queries,
                   all_findings, unique, top, ftasks, full_content, searchWrites,
                   pageWrites, extractText, result, error>>

\* _search_cached, lines 72-74: cache miss, the provider search is awaited.
SearchLookupMiss(i) ==
    /\ pc = "searching"
    /\ CanLookup(stasks, i)
    /\ ~CacheExists(searchCache, stasks[i].query)
    /\ stasks' = [stasks EXCEPT ![i].stat = "waiting", ![i].called = TRUE]
    /\ UNCHANGED <<sources, nonResearchVars>>
    /\ UNCHANGED <<pc, top_n, searchCache, pageCache, genText, queries, completed,
                   all_findings, unique, top, ftasks, full_content, searchWrites,
                   pageWrites, extractText, result, error>>

\* _search_cached, lines 74-80: the search returns; findings are built,
\* written to the cache file and returned.
SearchSucceed(i) ==
    /\ pc = "searching"
    /\ Started(stasks)
    /\ stasks[i].stat = "waiting"
    /\ \E m \in ProviderAnswers(stasks[i].query) :
        /\ stasks' = [stasks EXCEPT ![i].stat = "ok",
                                    ![i].res = ToFindings(ResultMenu[m])]
        /\ searchCache' = CacheWrite(searchCache, stasks[i].query,
                                     ToFindings(ResultMenu[m]))
        /\ searchWrites' = searchWrites \cup
                            {[task |-> i, key |-> stasks[i].query,
                              val |-> ToFindings(ResultMenu[m])]}
    /\ completed' = Append(completed, i)
    /\ UNCHANGED <<sources, nonResearchVars>>
    /\ UNCHANGED <<pc, top_n, pageCache, genText, queries, all_findings, unique,
                   top, ftasks, full_content, pageWrites, extractText, result,
                   error>>

\* _search_cached, line 74: the search raises (network error, non-2xx status
\* through raise_for_status, timeout); gather keeps the exception as the
\* task's outcome.
SearchFail(i) ==
    /\ pc = "searching"
    /\ Started(stasks)
    /\ stasks[i].stat = "waiting"
    /\ stasks' = [stasks EXCEPT ![i].stat = "failed"]
    /\ completed' = Append(completed, i)
    /\ UNCHANGED <<sources, nonResearchVars>>
    /\ UNCHANGED <<pc, top_n, searchCache, pageCache, genText, queries,
                   all_findings, unique, top, ftasks, full_content, searchWrites,
                   pageWrites, extractText, result, error>>

\* research(), lines 38-50: the gather returns once every task has finished;
\* the results are merged, deduplicated and ranked, and one _fetch_content
\* task per selected finding is handed to the second gather.
MergeDedupeRank ==
    /\ pc = "searching"
    /\ Finished(stasks)
    /\ all_findings' = MergeResults(GatherResults(stasks, completed))
    /\ unique' = Dedupe(all_findings')
    /\ top' = TopOf(unique', top_n)
    /\ ftasks' = [j \in 1..Len(top') |-> NewFetchTask(top'[j])]
    /\ pc' = "fetching"
    /\ UNCHANGED <<sources, nonResearchVars>>
    /\ UNCHANGED <<top_n, searchCache, pageCache, genText, queries, stasks,
                   completed, full_content, searchWrites, pageWrites,
                   extractText, result, error>>

\* _fetch_content, lines 83-87: cache hit, the page file is read.
FetchLookupHit(j) ==
    /\ pc = "fetching"
    /\ CanLookup(ftasks, j)
    /\ CacheExists(pageCache, ftasks[j].url)
    /\ full_content' = [full_content EXCEPT
                          ![ftasks[j].url] = Content(pageCache[ftasks[j].url])]
    /\ ftasks' = [ftasks EXCEPT ![j].stat = "ok", ![j].hit = TRUE,
                                ![j].outcome = "hit"]
    /\ UNCHANGED <<sources, nonResearchVars>>
    /\ UNCHANGED <<pc, top_n, searchCache, pageCache, genText, queries, stasks,
                   completed, all_findings, unique, top, searchWrites,
                   pageWrites, extractText, result, error>>

\* _fetch_content, line 86: the page file exists but reading it raises; the
\* read is outside the try block, gather keeps the exception.
FetchLookupReadFail(j) ==
    /\ pc = "fetching"
    /\ CanLookup(ftasks, j)
    /\ CacheExists(pageCache, ftasks[j].url)
    /\ ftasks' = [ftasks EXCEPT ![j].stat = "failed", ![j].hit = TRUE,
                                ![j].outcome = "readerr"]
    /\ UNCHANGED <<sources, nonResearchVars>>
    /\ UNCHANGED <<pc, top_n, searchCache, pageCache, genText, queries, stasks,
                   completed, all_findings, unique, top, full_content,
                   searchWrites, pageWrites, extractText, result, error>>

\* _fetch_content, lines 85-89: cache miss, session.get is awaited.
FetchLookupMiss(j) ==
    /\ pc = "fetching"
    /\ CanLookup(ftasks, j)
    /\ ~CacheExists(pageCache, ftasks[j].url)
    /\ ftasks' = [ftasks EXCEPT ![j].stat = "waiting", ![j].called = TRUE]
    /\ UNCHANGED <<sources, nonResearchVars>>
    /\ UNCHANGED <<pc, top_n, searchCache, pageCache, genText, queries, stasks,
                   completed, all_findings, unique, top, full_content,
                   searchWrites, pageWrites, extractText, result, error>>

\* _fetch_content, lines 89-98: status 200; the text is stripped, cut to 8000
\* characters, stored on the finding and written to the page file.
FetchSucceed(j) ==
    /\ pc = "fetching"
    /\ Started(ftasks)
    /\ ftasks[j].stat = "waiting"
    /\ \E len \in PageLens :
        /\ full_content' = [full_content EXCEPT
                              ![ftasks[j].url] = Content(PageText(len))]
        /\ pageCache' = CacheWrite(pageCache, ftasks[j].url, PageText(len))
        /\ pageWrites' = pageWrites \cup
                          {[task |-> j, key |-> ftasks[j].url,
                            val |-> PageText(len)]}
    /\ ftasks' = [ftasks EXCEPT ![j].stat = "ok", ![j].outcome = "fetched"]
    /\ UNCHANGED <<sources, nonResearchVars>>
    /\ UNCHANGED <<pc, top_n, searchCache, genText, queries, stasks, completed,
                   all_findings, unique, top, searchWrites, extractText, result,
                   error>>

\* _fetch_content, lines 90-91: resp.status != 200, return.
FetchNon200(j) ==
    /\ pc = "fetching"
    /\ Started(ftasks)
    /\ ftasks[j].stat = "waiting"
    /\ ftasks' = [ftasks EXCEPT ![j].stat = "ok", ![j].outcome = "non200"]
    /\ UNCHANGED <<sources, nonResearchVars>>
    /\ UNCHANGED <<pc, top_n, searchCache, pageCache, genText, queries, stasks,
                   completed, all_findings, unique, top, full_content,
                   searchWrites, pageWrites, extractText, result, error>>

\* _fetch_content, lines 99-100: session.get or resp.text raises (network
\* error, timeout); the exception is logged and swallowed.
FetchError(j) ==
    /\ pc = "fetching"
    /\ Started(ftasks)
    /\ ftasks[j].stat = "waiting"
    /\ ftasks' = [ftasks EXCEPT ![j].stat = "ok", ![j].outcome = "neterr"]
    /\ UNCHANGED <<sources, nonResearchVars>>
    /\ UNCHANGED <<pc, top_n, searchCache, pageCache, genText, queries, stasks,
                   completed, all_findings, unique, top, full_content,
                   searchWrites, pageWrites, extractText, result, error>>

\* ----------------------------------------------------------- _extract_facts
\* The Finding objects as _extract_facts sees them
WithContent(fs, fc) ==
    [i \in 1..Len(fs) |->
        [url |-> fs[i].url, snippet |-> fs[i].snippet,
         relevance_score |-> fs[i].relevance_score,
         full_content |-> fc[fs[i].url]]]

Snippets(fs) == [i \in 1..Len(fs) |-> fs[i].snippet]
UrlsOf(fs) == [i \in 1..Len(fs) |-> fs[i].url]

\* `if f.full_content`: neither None nor the empty string
Truthy(c) == c.set /\ c.len > 0

\* lines 103-106: the prompt lists `for f in findings[:8]`
SourcesOf(findings) == Take(findings, MaxSources)

\* line 119: the data used when json.loads raises JSONDecodeError
FallbackData(topic, findings) ==
    JObject({"key_facts", "structured_summary", "query_used"},
            Snippets(Take(findings, MaxSources)),
            "Research on: " \o topic, topic)

\* lines 115-119
ExtractData(topic, text, findings) ==
    IF JsonDecodes(StripFences(text))
    THEN JsonLoads(StripFences(text))
    ELSE FallbackData(topic, findings)

\* lines 120-124: data.get on a value that is not a dict raises AttributeError
ExtractRaises(text) ==
    /\ JsonDecodes(StripFences(text))
    /\ JsonLoads(StripFences(text)).type # "object"

BuildResultTruncated(topic, data, findings) ==
    [topic |-> topic, query_used |-> GetQueryUsed(data, topic),
     findings |-> Take(findings, MaxSources),
     key_facts |-> GetKeyFacts(data), structured_summary |-> GetSummary(data),
     relevant_urls |-> UrlsOf(SelectSeq(findings, LAMBDA f : Truthy(f.full_content)))]

\* lines 120-124
BuildResult(topic, data, findings) ==
    [topic |-> topic, query_used |-> GetQueryUsed(data, topic),
     findings |-> findings,
     key_facts |-> GetKeyFacts(data), structured_summary |-> GetSummary(data),
     relevant_urls |-> UrlsOf(SelectSeq(findings, LAMBDA f : Truthy(f.full_content)))]

\* research() line 52 and _extract_facts: the second gather has returned, the
\* LLM answers, and the ResearchResult is built.
ExtractFactsReturn ==
    /\ pc = "fetching"
    /\ Finished(ftasks)
    /\ \E t \in 1..Len(ExtractTexts) :
        /\ ~ExtractRaises(ExtractTexts[t])
        /\ extractText' = ExtractTexts[t]
        /\ sources' = SourcesOf(WithContent(unique, full_content))
        /\ result' = BuildResult(Topic,
                        ExtractData(Topic, ExtractTexts[t],
                                    WithContent(unique, full_content)),
                        WithContent(unique, full_content))
    /\ pc' = "done"
    /\ UNCHANGED nonResearchVars
    /\ UNCHANGED <<top_n, searchCache, pageCache, genText, queries, stasks,
                   completed, all_findings, unique, top, ftasks, full_content,
                   searchWrites, pageWrites, error>>

\* _extract_facts, lines 117-122: the response is valid JSON but not an
\* object; data.get raises and research() propagates the exception.
ExtractFactsRaise ==
    /\ pc = "fetching"
    /\ Finished(ftasks)
    /\ \E t \in 1..Len(ExtractTexts) :
        /\ ExtractRaises(ExtractTexts[t])
        /\ extractText' = ExtractTexts[t]
        /\ sources' = SourcesOf(WithContent(unique, full_content))
    /\ error' = "AttributeError"
    /\ pc' = "raised"
    /\ UNCHANGED nonResearchVars
    /\ UNCHANGED <<top_n, searchCache, pageCache, genText, queries, stasks,
                   completed, all_findings, unique, top, ftasks, full_content,
                   searchWrites, pageWrites, result>>

Next ==
    \/ GenerateQueriesStep
    \/ \E i \in 1..Len(stasks) : SearchLookupHit(i)
    \/ \E i \in 1..Len(stasks) : SearchLookupReadFail(i)
    \/ \E i \in 1..Len(stasks) : SearchLookupMiss(i)
    \/ \E i \in 1..Len(stasks) : SearchSucceed(i)
    \/ \E i \in 1..Len(stasks) : SearchFail(i)
    \/ MergeDedupeRank
    \/ \E j \in 1..Len(ftasks) : FetchLookupHit(j)
    \/ \E j \in 1..Len(ftasks) : FetchLookupReadFail(j)
    \/ \E j \in 1..Len(ftasks) : FetchLookupMiss(j)
    \/ \E j \in 1..Len(ftasks) : FetchSucceed(j)
    \/ \E j \in 1..Len(ftasks) : FetchNon200(j)
    \/ \E j \in 1..Len(ftasks) : FetchError(j)
    \/ ExtractFactsReturn
    \/ ExtractFactsRaise

Spec == Init /\ [][Next]_vars

\* ================================================================== claims
\* research() has merged and deduplicated (lines 42-49 have run)
Merged == pc \in {"fetching", "done", "raised"}

UrlSet(fs) == {fs[i].url : i \in 1..Len(fs)}

\* index of the first entry of fs with url u
FirstIndex(fs, u) ==
    CHOOSE i \in 1..Len(fs) :
        /\ fs[i].url = u
        /\ \A j \in 1..(i - 1) : fs[j].url # u

\* C1: after the merge, unique holds exactly one entry per distinct url of
\* the merged findings, and that entry is the first one with that url in
\* merge order (its snippet and relevance_score are those of the first copy).
C1_DedupFirstSeen ==
    Merged =>
        /\ UrlSet(unique) = UrlSet(all_findings)
        /\ \A u \in UrlSet(all_findings) :
            /\ Cardinality({k \in 1..Len(unique) : unique[k].url = u}) = 1
            /\ \E k \in 1..Len(unique) :
                unique[k] = all_findings[FirstIndex(all_findings, u)]

\* C1 witness: queries 1 and 3 of four returned the same url with different
\* snippets and scores, and unique keeps the copy of query 1.
C1_Witness ==
    /\ Merged
    /\ Len(stasks) = 4
    /\ \E a \in 1..Len(stasks[1].res), b \in 1..Len(stasks[3].res) :
        /\ stasks[1].res[a].url = stasks[3].res[b].url
        /\ stasks[1].res[a].snippet # stasks[3].res[b].snippet
        /\ stasks[1].res[a].relevance_score # stasks[3].res[b].relevance_score
        /\ \E k \in 1..Len(unique) : unique[k] = stasks[1].res[a]
        /\ \A k \in 1..Len(unique) : unique[k] # stasks[3].res[b]

\* the results of the tasks, concatenated by issue index
RECURSIVE IssueConcat(_, _)
IssueConcat(tasks, i) ==
    IF i > Len(tasks) THEN <<>> ELSE tasks[i].res \o IssueConcat(tasks, i + 1)

\* C2: deduplication starts only when every query task of the batch has
\* finished, and its result is the first-seen deduplication of the task
\* results taken in issue order, for every order of completion.
C2_IssueOrderNotCompletionOrder ==
    /\ ~Merged => (all_findings = <<>> /\ unique = <<>>)
    /\ Merged =>
        /\ Finished(stasks)
        /\ unique = Dedupe(IssueConcat(stasks, 1))

\* C2 witness: the tasks completed out of issue order, and deduplicating in
\* completion order would have kept other copies.
C2_Witness ==
    /\ Merged
    /\ \E k \in 1..(Len(completed) - 1) : completed[k] > completed[k + 1]
    /\ Len(unique) >= 2
    /\ Dedupe(MergeResults(GatherAsCompleted(stasks, completed))) # unique

\* the results of the tasks that returned, concatenated by issue index
RECURSIVE OkConcat(_, _)
OkConcat(tasks, i) ==
    IF i > Len(tasks) THEN <<>>
    ELSE IF tasks[i].stat = "ok"
         THEN tasks[i].res \o OkConcat(tasks, i + 1)
         ELSE OkConcat(tasks, i + 1)

\* C3: a failed query task contributes nothing, every sibling runs to its own
\* outcome, the merged findings are the concatenation in issue order of the
\* results of the tasks that succeeded, and research() does not raise in the
\* search fan-out.
C3_PartialFailureTolerantFanOut ==
    /\ Merged =>
        /\ \A i \in 1..Len(stasks) : stasks[i].stat \in {"ok", "failed"}
        /\ all_findings = OkConcat(stasks, 1)
    /\ pc = "raised" => (Merged /\ Finished(ftasks) /\ extractText # NoText)

\* C3 witness: a search failed, a cache read failed, a later sibling still
\* returned results, and they were merged.
C3_Witness ==
    /\ Merged
    /\ \E i, j, k \in 1..Len(stasks) :
        /\ i < k
        /\ stasks[i].stat = "failed" /\ stasks[i].called
        /\ stasks[j].stat = "failed" /\ stasks[j].hit
        /\ stasks[k].stat = "ok" /\ stasks[k].called
        /\ Len(stasks[k].res) > 0
        /\ all_findings = stasks[k].res

\* a step in which search task i / fetch task j looks its cache key up
SearchLooksUp(i) == stasks[i].stat = "new" /\ stasks'[i].stat # "new"
FetchLooksUp(j) == ftasks[j].stat = "new" /\ ftasks'[j].stat # "new"

C5_Claimed_NoTwoWritesSameKey ==
    /\ \A w1, w2 \in searchWrites : w1.task # w2.task => w1.key # w2.key
    /\ \A w1, w2 \in pageWrites : w1.task # w2.task => w1.key # w2.key

\* C5 amended: no two content-fetch tasks of a run write the same cache key,
\* and two search tasks write the same key only when they were issued for the
\* same, repeated query; with pairwise distinct queries every write of the run
\* has its own key.
C5_WritesConflictOnlyOnRepeatedQuery ==
    /\ \A w1, w2 \in pageWrites : w1.task # w2.task => w1.key # w2.key
    /\ \A w \in pageWrites :
        w.task \in 1..Len(ftasks) /\ w.key = ftasks[w.task].url
    /\ \A w1, w2 \in searchWrites :
        (w1.task # w2.task /\ w1.key = w2.key) =>
            /\ queries[w1.task] = queries[w2.task]
            /\ ~stasks[w1.task].hit /\ ~stasks[w2.task].hit
    /\ (\A a, b \in 1..Len(queries) : a # b => queries[a] # queries[b]) =>
        \A w1, w2 \in searchWrites : w1.task # w2.task => w1.key # w2.key

\* C5 witness: two tasks of a repeated query both wrote the search key, with
\* different values, and two content-fetch tasks wrote distinct page keys.
C5_Witness ==
    /\ \E w1, w2 \in searchWrites :
        w1.task # w2.task /\ w1.key = w2.key /\ w1.val # w2.val
    /\ \E w1, w2 \in pageWrites : w1.task # w2.task /\ w1.key # w2.key

\* a content fetch that failed: non-200 status, network error or timeout
FetchFailed(j) == ftasks[j].outcome \in {"non200", "neterr"}

\* C6 as claimed: when a content fetch fails, its Finding keeps only its
\* snippet (full_content unset, nothing written to the page cache for its
\* url), the other fetches of the batch reach their own outcome, and
\* research() returns a ResearchResult.
C6_Claimed_FetchFailureSwallowed ==
    \A j \in 1..Len(ftasks) :
        FetchFailed(j) =>
            /\ ~full_content[ftasks[j].url].set
            /\ ftasks[j].url \notin DOMAIN pageCache
            /\ \A w \in pageWrites : w.key # ftasks[j].url
            /\ ftasks[j].stat = "ok"
            /\ pc # "raised"

\* the 1-based rank of unique[i]: one more than the number of entries that
\* precede it by higher score, or by equal score and earlier position
Rank(fs, i) ==
    1 + Cardinality({j \in 1..Len(fs) :
                        \/ fs[j].relevance_score > fs[i].relevance_score
                        \/ /\ fs[j].relevance_score = fs[i].relevance_score
                           /\ j < i})

\* C7: the findings selected for content fetch are the first top_n entries of
\* unique ranked by relevance_score descending with ties in merge order, one
\* fetch task is issued per selected finding, and no other finding gets
\* full_content.
C7_TopNStableRanking ==
    Merged =>
        /\ Len(top) = Min(top_n, Len(unique))
        /\ \A k \in 1..Len(top) :
            \E i \in 1..Len(unique) : Rank(unique, i) = k /\ top[k] = unique[i]
        /\ Len(ftasks) = Len(top)
        /\ \A k \in 1..Len(top) : ftasks[k].url = top[k].url
        /\ \A u \in Urls : full_content[u].set => u \in UrlSet(top)
        /\ \A w \in pageWrites : w.key \in UrlSet(top)

\* C7 witness: two findings tie on relevance_score across the cut: the
\* earlier one in merge order is selected and fetched, the later one is not.
C7_Witness ==
    /\ Merged
    /\ \E i, j \in 1..Len(unique) :
        /\ i < j
        /\ unique[i].relevance_score = unique[j].relevance_score
        /\ unique[i].url \in UrlSet(top)
        /\ unique[j].url \notin UrlSet(top)
        /\ full_content[unique[i].url].set
        /\ ~full_content[unique[j].url].set

\* the query-generation response is valid JSON / a JSON list
GenDecodes == JsonDecodes(StripFences(genText))
GenIsList == GenDecodes /\ JsonLoads(StripFences(genText)).type = "list"

\* C8 as claimed: at most 4 queries, and the three-query fallback whenever
\* the response is not parseable as a list.
C8_Claimed_FallbackWheneverNotAList ==
    pc # "start" =>
        /\ Len(queries) <= MaxQueries
        /\ ~GenIsList => queries = <<Topic, "T announcement", "T review">>

\* C8 amended: at most 4 queries (the first 4 items of a JSON list); the
\* three-query fallback exactly when the response is not valid JSON; the
\* single query [topic] when it is valid JSON that is not a list.
C8_FallbackOnInvalidJsonOnly ==
    pc # "start" =>
        /\ Len(queries) <= MaxQueries
        /\ GenIsList =>
            /\ Len(queries) = Min(MaxQueries, Len(JsonLoads(StripFences(genText)).items))
            /\ \A i \in 1..Len(queries) :
                queries[i] = JsonLoads(StripFences(genText)).items[i]
        /\ ~GenDecodes => queries = <<Topic, "T announcement", "T review">>
        /\ (GenDecodes /\ ~GenIsList) => queries = <<Topic>>

\* C8 witness: the response was a JSON list of five queries behind no fence,
\* and four were kept.
C8_Witness ==
    /\ pc # "start"
    /\ GenIsList
    /\ Len(JsonLoads(StripFences(genText)).items) > MaxQueries
    /\ Len(queries) = MaxQueries

\* C9 as claimed: whatever text the LLM returns, _extract_facts returns a
\* ResearchResult, and on a response that is not valid JSON key_facts are the
\* snippets of the first 8 sources and the summary is the templated one.
C9_Claimed_ExtractNeverFails ==
    extractText # NoText =>
        /\ pc = "done"
        /\ ~JsonDecodes(StripFences(extractText)) =>
            /\ result.key_facts = Snippets(Take(unique, MaxSources))
            /\ result.structured_summary = "Research on: T"

\* the urls returned by the query tasks that succeeded
Collected == UNION {UrlSet(stasks[i].res) : i \in {k \in 1..Len(stasks) : stasks[k].stat = "ok"}}

\* C10: the ResearchResult research() returns holds exactly one Finding per
\* distinct url returned by a successful query, whether the extraction
\* response parsed or the fallback was used.
C10_ResultHoldsEveryFinding ==
    pc = "done" =>
        /\ UrlSet(result.findings) = Collected
        /\ Len(result.findings) = Cardinality(Collected)

\* C10 witness: more than 8 findings were collected, the extraction response
\* was not valid JSON, and the result still holds all of them.
C10_Witness ==
    /\ pc = "done"
    /\ ~JsonDecodes(StripFences(extractText))
    /\ Cardinality(Collected) > MaxSources
    /\ Len(result.findings) = Cardinality(Collected)
    /\ Len(result.key_facts) = MaxSources

\* the extraction prompt has been sent
Extracted == pc \in {"done", "raised"}

\* C11 as claimed: the sources given to the extraction call are the 8
\* highest-ranked findings by relevance_score (ties in merge order), so every
\* content-fetched finding that ranks in the top 8 is among them.
C11_Claimed_SourcesAreTopRanked ==
    Extracted =>
        /\ Len(sources) = Min(MaxSources, Len(unique))
        /\ \A i \in 1..Len(unique) :
            Rank(unique, i) <= MaxSources => unique[i].url \in UrlSet(sources)
        /\ \A k \in 1..Len(top) :
            (k <= MaxSources /\ full_content[top[k].url].set) =>
                top[k].url \in UrlSet(sources)

\* =========================================================== ScriptService
\* src/script_service.py: generate_script() asks the LLM for the script as
\* JSON, _parse() builds the VideoScript and its estimated timeline, and
\* _extract_markers() splits each narration into markers and clean text.

\* bound: the longest section list the LLM returns
MaxSections == 3

\* research() not running: ScriptService reads a finished ResearchResult
ResearchIdle ==
    /\ pc = "start"
    /\ top_n = 0
    /\ searchCache = EmptyCache
    /\ pageCache = EmptyCache
    /\ genText = NoText
    /\ queries = <<>>
    /\ stasks = <<>>
    /\ completed = <<>>
    /\ all_findings = <<>>
    /\ unique = <<>>
    /\ top = <<>>
    /\ ftasks = <<>>
    /\ full_content = [u \in Urls |-> Unset]
    /\ searchWrites = {}
    /\ pageWrites = {}
    /\ extractText = NoText
    /\ sources = <<>>
    /\ result = NoResult
    /\ error = None

\* A narration text is a sequence of spans: a word, a [SCREENSHOT:...] span
\* or a [VISUAL:...] span; text is what stands between the colon (and the
\* whitespace after it) and the closing bracket.
Word(w) == [kind |-> "word", text |-> w]
Shot(x) == [kind |-> "screenshot", text |-> x]
Visual(x) == [kind |-> "visual", text |-> x]

\* the span texts that start with http:// or https://
HttpUrls == {"https://a", "http://b"}

\* r"\[SCREENSHOT:\s*(https?://[^\]]+)\]"
MatchesScreenshot(s) == s.kind = "screenshot" /\ s.text \in HttpUrls
\* r"\[VISUAL:\s*([^\]]+)\]": at least one character before the bracket
MatchesVisual(s) == s.kind = "visual" /\ s.text # ""
\* r"\[(?:SCREENSHOT|VISUAL):[^\]]*\]", the spans re.sub removes
IsCueSpan(s) == s.kind \in {"screenshot", "visual"}

ScreenshotMarker(s, section_id) ==
    [marker_type |-> "screenshot", url |-> s.text, description |-> "",
     section_id |-> section_id]
VisualMarker(s, section_id) ==
    [marker_type |-> "visual", url |-> "", description |-> s.text,
     section_id |-> section_id]

\* _extract_markers: one findall pass for the screenshots, then one for the
\* visuals, then the cue spans are removed and the whitespace collapsed, which
\* leaves the words.
ExtractMarkers(narration, section_id) ==
    LET shots == SelectSeq(narration, MatchesScreenshot)
        visuals == SelectSeq(narration, MatchesVisual)
        ns == Len(shots)
        IsText(s) == ~IsCueSpan(s)
    IN  [markers |->
            [k \in 1..(ns + Len(visuals)) |->
                IF k <= ns THEN ScreenshotMarker(shots[k], section_id)
                ELSE VisualMarker(visuals[k - ns], section_id)],
         clean |-> SelectSeq(narration, IsText)]

\* (len(clean.split()) / words_per_minute) * 60, kept in milliseconds
MsPerMinute == 60000
DurationOf(clean, wpm) == (Len(clean) * MsPerMinute) \div wpm

\* cfg.words_per_minute values for which a word lasts a whole number of ms
WpmChoices == {120, 150}

AdvanceOverwrite(t0, dur) == dur

\* t += dur
Advance(t0, dur) == t0 + dur

\* A raw section of the LLM's JSON: the keys it has and their values.
RawSection(keys, id, type, title, narration) ==
    [keys |-> keys, section_id |-> id, section_type |-> type, title |-> title,
     narration_text |-> narration]

AllKeys == {"section_id", "section_type", "title", "narration_text"}

SectionMenu ==
    << RawSection(AllKeys, "intro", "intro", "A",
                  <<Word("w1"), Word("w2"), Shot("https://a"), Word("w3"),
                    Word("w4"), Visual("chart")>>),
       RawSection(AllKeys, "main", "main", "B",
                  <<Word("w1"), Visual("chart"), Word("w2"), Shot("http://b")>>),
       RawSection(AllKeys, "beat", "main", "C", <<Visual("chart")>>),
       RawSection({"section_id", "narration_text"}, "intro", "", "",
                  <<Word("w1"), Shot("url"), Word("w2")>>),
       RawSection({"narration_text"}, "", "", "", <<Word("w1")>>) >>

\* raw.get(key, default)
GetNarration(raw) == IF "narration_text" \in raw.keys THEN raw.narration_text ELSE <<>>
GetSectionType(raw) == IF "section_type" \in raw.keys THEN raw.section_type ELSE "main"
GetSectionTitle(raw) == IF "title" \in raw.keys THEN raw.title ELSE ""

\* The JSON object the prompt asks for.
JScript(keys, title, secs) ==
    [type |-> "object", items |-> <<>>, keys |-> keys, title |-> title,
     sections |-> secs]

\* data.get("sections", []), data.get("title", topic)
GetSections(data) == IF "sections" \in data.keys THEN data.sections ELSE <<>>
GetTitle(data, topic) == IF "title" \in data.keys THEN data.title ELSE topic

SectionLists ==
    UNION { [1..n -> 1..Len(SectionMenu)] : n \in 0..MaxSections }

\* What the LLM may answer to the script prompt.
ScriptTexts ==
    { <<Value(JScript({"title", "sections"}, "Title",
                      [i \in 1..Len(l) |-> SectionMenu[l[i]]]))>> : l \in SectionLists }
    \cup
    { <<FenceJson, Value(JScript({"sections"}, "", <<SectionMenu[1], SectionMenu[2]>>)), Fence>>,
      <<Value(JScript({"title"}, "Title", <<>>))>>,
      <<Value(JList(<<>>))>>,
      <<Prose, Value(JScript({"title", "sections"}, "Title", <<SectionMenu[1]>>))>>,
      <<Prose>> }

\* data of generate_script once json.loads returned
ScriptData == JsonLoads(StripFences(scriptText))

InitScript ==
    /\ ResearchIdle
    /\ RunIdle
    /\ SyncIdle
    /\ spc = "start"
    /\ words_per_minute \in WpmChoices
    /\ scriptText = NoText
    /\ sections = <<>>
    /\ t_run = 0
    /\ script = NoScript
    /\ serror = None

\* generate_script(), lines 79-84: the response decodes to a JSON object and
\* _parse starts with sections = [], t = 0.0.
ScriptLoaded ==
    /\ spc = "start"
    /\ \E text \in ScriptTexts :
        /\ JsonDecodes(StripFences(text))
        /\ JsonLoads(StripFences(text)).type = "object"
        /\ scriptText' = text
    /\ spc' = "parsing"
    /\ UNCHANGED <<words_per_minute, sections, t_run, script, serror, nonScriptVars>>

\* line 83: json.loads(raw) is not inside a try, its JSONDecodeError leaves
\* generate_script.
ScriptJsonError ==
    /\ spc = "start"
    /\ \E text \in ScriptTexts :
        /\ ~JsonDecodes(StripFences(text))
        /\ scriptText' = text
    /\ spc' = "raised"
    /\ serror' = "JSONDecodeError"
    /\ UNCHANGED <<words_per_minute, sections, t_run, script, nonScriptVars>>

\* line 91: data.get on a JSON value that is not an object
ScriptNotObject ==
    /\ spc = "start"
    /\ \E text \in ScriptTexts :
        /\ JsonDecodes(StripFences(text))
        /\ JsonLoads(StripFences(text)).type # "object"
        /\ scriptText' = text
    /\ spc' = "raised"
    /\ serror' = "AttributeError"
    /\ UNCHANGED <<words_per_minute, sections, t_run, script, nonScriptVars>>

\* the raw section the loop of _parse is at
NextRaw == GetSections(ScriptData)[Len(sections) + 1]

\* _parse, lines 91-104: one turn of the loop
ParseSection ==
    /\ spc = "parsing"
    /\ Len(sections) < Len(GetSections(ScriptData))
    /\ "section_id" \in NextRaw.keys
    /\ LET raw == NextRaw
           em == ExtractMarkers(GetNarration(raw), raw.section_id)
           dur == DurationOf(em.clean, words_per_minute)
       IN  /\ sections' = Append(sections,
                [section_id |-> raw.section_id,
                 section_type |-> GetSectionType(raw),
                 title |-> GetSectionTitle(raw),
                 narration_text |-> em.clean,
                 visual_markers |-> em.markers,
                 estimated_duration_seconds |-> dur,
                 start_time |-> t_run])
           /\ t_run' = Advance(t_run, dur)
    /\ UNCHANGED <<spc, words_per_minute, scriptText, script, serror, nonScriptVars>>

\* line 93: raw["section_id"] on a section without that key
ParseSectionKeyError ==
    /\ spc = "parsing"
    /\ Len(sections) < Len(GetSections(ScriptData))
    /\ "section_id" \notin NextRaw.keys
    /\ spc' = "raised"
    /\ serror' = "KeyError"
    /\ UNCHANGED <<words_per_minute, scriptText, sections, t_run, script, nonScriptVars>>

\* lines 105-110 and 84-86: the VideoScript is built and returned
FinishParse ==
    /\ spc = "parsing"
    /\ Len(sections) = Len(GetSections(ScriptData))
    /\ script' = [topic |-> Topic,
                  title |-> GetTitle(ScriptData, Topic),
                  sections |-> sections,
                  full_text |-> [i \in 1..Len(sections) |-> sections[i].narration_text],
                  total_estimated_seconds |-> t_run]
    /\ spc' = "done"
    /\ UNCHANGED <<words_per_minute, scriptText, sections, t_run, serror, nonScriptVars>>

NextScript ==
    \/ ScriptLoaded
    \/ ScriptJsonError
    \/ ScriptNotObject
    \/ ParseSection
    \/ ParseSectionKeyError
    \/ FinishParse

SpecScript == InitScript /\ [][NextScript]_vars

\* ----------------------------------------------------- ScriptService claims
RECURSIVE SumDurations(_)
SumDurations(secs) ==
    IF secs = <<>> THEN 0
    ELSE SumDurations(SubSeq(secs, 1, Len(secs) - 1))
         + secs[Len(secs)].estimated_duration_seconds

\* the timeline of a section list is gap-free
GapFree(secs) ==
    \A i \in 1..Len(secs) :
        /\ secs[i].start_time = SumDurations(SubSeq(secs, 1, i - 1))
        /\ (i = 1 => secs[i].start_time = 0)
        /\ (i > 1 => secs[i - 1].start_time <= secs[i].start_time)
        /\ (Len(secs[i].narration_text) = 0 =>
                /\ secs[i].estimated_duration_seconds = 0
                /\ (i < Len(secs) => secs[i + 1].start_time = secs[i].start_time))

\* C12: in every script _parse builds the first section starts at 0, section i
\* starts at the sum of the durations of the sections before it, a section
\* without words has duration 0 and does not advance the timeline, and
\* total_estimated_seconds is the sum of all durations. It holds at every
\* turn of the loop as well.
C12_TimelineGapFree ==
    /\ GapFree(sections)
    /\ t_run = SumDurations(sections)
    /\ spc = "done" =>
        /\ GapFree(script.sections)
        /\ script.total_estimated_seconds = SumDurations(script.sections)

\* C12 witness: a script of three sections whose second has no words; the
\* third starts where the second did, after 0, and the total is later still.
C12_Witness ==
    /\ spc = "done"
    /\ Len(script.sections) = 3
    /\ script.sections[2].narration_text = <<>>
    /\ script.sections[2].start_time > 0
    /\ script.sections[3].start_time = script.sections[2].start_time
    /\ script.total_estimated_seconds > script.sections[3].start_time

\* the narration the LLM gave for the i-th section built
NarrationOf(i) == GetNarration(GetSections(ScriptData)[i])

\* the cue spans of a narration that yield a marker, in text order
MarkersInTextOrder(narration, section_id) ==
    LET Matches(s) == MatchesScreenshot(s) \/ MatchesVisual(s)
        cues == SelectSeq(narration, Matches)
    IN  [k \in 1..Len(cues) |->
            IF cues[k].kind = "screenshot"
            THEN ScreenshotMarker(cues[k], section_id)
            ELSE VisualMarker(cues[k], section_id)]

\* C13 as claimed: the marker list of every section is in the order in which
\* the cues appear in its narration text, whatever the interleaving of
\* SCREENSHOT and VISUAL cues.
C13_Claimed_MarkersInTextOrder ==
    \A i \in 1..Len(sections) :
        sections[i].visual_markers =
            MarkersInTextOrder(NarrationOf(i), sections[i].section_id)

\* the number of cue spans re.sub removes from a narration
StrippedSpans(narration) ==
    Cardinality({k \in 1..Len(narration) : IsCueSpan(narration[k])})

\* the words of a narration outside its cue spans
NonCueContent(narration) ==
    LET IsWord(s) == s.kind = "word" IN SelectSeq(narration, IsWord)

\* C14 as claimed: every cue span removed from the narration has exactly one
\* marker (as many markers as stripped spans), and the clean text is the
\* non-cue content of the narration.
C14_Claimed_LosslessPartition ==
    \A i \in 1..Len(sections) :
        /\ Len(sections[i].visual_markers) = StrippedSpans(NarrationOf(i))
        /\ sections[i].narration_text = NonCueContent(NarrationOf(i))

\* C15 as claimed: no two sections of a script _parse returns share a
\* section_id.
C15_Claimed_SectionIdUnique ==
    spc = "done" =>
        \A i, j \in 1..Len(script.sections) :
            script.sections[i].section_id = script.sections[j].section_id => i = j

\* C16 as claimed: when the LLM text is not valid JSON, generate_script does
\* not raise and returns a script.
C16_Claimed_ScriptFallbackOnInvalidJson ==
    (scriptText # NoText /\ ~JsonDecodes(StripFences(scriptText))) => spc = "done"

\* ================================================ run_generate and run()
\* src/main.py builds the RuntimeConfig (ConfigLoader.load, then _build again
\* when --set is given) and hands it to PipelineOrchestrator.run, which runs
\* the seven steps inside one try/except.

\* bound: the most assets collect_visuals returns
MaxVisuals == 4

\* name.lower() on the provider names of the model
Lower(name) == IF name = "Claude" THEN "claude" ELSE name

\* the names the three factories know
LlmSupported == {"claude", "openai", "gemini"}
SearchSupported == {"google", "bing", "serpapi", "searx"}
VoiceSupported == {"elevenlabs", "openai_tts", "azure"}

KnownLlm(name) == Lower(name) \in LlmSupported

KnownSearchAny(name) == TRUE

KnownSearch(name) == Lower(name) \in SearchSupported
KnownVoice(name) == Lower(name) \in VoiceSupported

\* qc.get("enabled", True), qc.get("min_visual_assets", 3)
DefaultMinVisualAssets == 3
QcEnabled(qc) == IF "enabled" \in qc.keys THEN qc.enabled ELSE TRUE
QcMinVisualAssets(qc) ==
    IF "min_visual_assets" \in qc.keys THEN qc.min_visual_assets
    ELSE DefaultMinVisualAssets

Lookup(kind, name) == [kind |-> kind, name |-> name]
BuildFails(err, calls) ==
    [ok |-> FALSE, error |-> err, lookups |-> calls, cfg |-> NoCfg]

\* ConfigLoader._build: the llm model is read and the llm provider built,
\* then the search provider, then the voice model is read and the voice
\* provider built; the first failure raises.
Build(raw) ==
    IF raw.llm \notin raw.llm_models
    THEN BuildFails("KeyError", <<>>)
    ELSE IF ~KnownLlm(raw.llm)
    THEN BuildFails("ValueError", <<Lookup("llm", raw.llm)>>)
    ELSE IF ~KnownSearch(raw.search)
    THEN BuildFails("ValueError",
                    <<Lookup("llm", raw.llm), Lookup("search", raw.search)>>)
    ELSE IF raw.voice \notin raw.voice_models
    THEN BuildFails("KeyError",
                    <<Lookup("llm", raw.llm), Lookup("search", raw.search)>>)
    ELSE IF ~KnownVoice(raw.voice)
    THEN BuildFails("ValueError",
                    <<Lookup("llm", raw.llm), Lookup("search", raw.search),
                      Lookup("voice", raw.voice)>>)
    ELSE [ok |-> TRUE, error |-> None,
          lookups |-> <<Lookup("llm", raw.llm), Lookup("search", raw.search),
                        Lookup("voice", raw.voice)>>,
          cfg |-> [llm |-> Lower(raw.llm), search |-> Lower(raw.search),
                   voice |-> Lower(raw.voice),
                   quality_checks_enabled |-> QcEnabled(raw.qc),
                   min_visual_assets |-> QcMinVisualAssets(raw.qc)]]

\* _set_nested(raw, key, value) for the provider keys
SetNested(raw, key, value) ==
    IF key = "llm.provider" THEN [raw EXCEPT !.llm = value]
    ELSE IF key = "search.provider" THEN [raw EXCEPT !.search = value]
    ELSE IF key = "voice.provider" THEN [raw EXCEPT !.voice = value]
    ELSE raw

\* The pipeline.json files and --set arguments of the model.
QcMenu ==
    { QualityChecks({}, TRUE, 0),
      QualityChecks({"enabled"}, FALSE, 0),
      QualityChecks({"enabled", "min_visual_assets"}, TRUE, 1) }
BaseConfigs ==
    { RawConfig(llm, lm, search, voice, vm, qc) :
        llm \in {"claude", "Claude", "llama"},
        lm \in {LlmSupported, LlmSupported \cup {"Claude", "llama"}},
        search \in {"google", "yahoo"},
        voice \in {"azure", "festival"},
        vm \in {VoiceSupported, VoiceSupported \cup {"festival"}},
        qc \in QcMenu }
\* the "overrides" object of a topic file: none, or one dot-notation key
TopicOverrides ==
    { NoOverride,
      [key |-> "search.provider", value |-> "bing"],
      [key |-> "llm.provider", value |-> "gemini"] }
SetOverrides ==
    { NoOverride,
      [key |-> "search.provider", value |-> "yahoo"],
      [key |-> "llm.provider", value |-> "openai"] }

\* the lines run() logs
StepNames ==
    <<"1/7 Research", "2/7 Script", "3/7 Visuals", "4/7 Voice", "5/7 Sync",
      "6/7 Video assembly", "7/7 Metadata">>
HeaderMsg == "Pipeline"
StartMsg(k) == StepNames[k]
OkMsg(k) == "ok " \o StepNames[k]
WarnMsg == "Only few visual assets"
DoneMsg == "Done"

\* what an awaited step may raise, with str(exc)
ExcMenu ==
    { [exc |-> "RuntimeError", msg |-> "boom"],
      [exc |-> "JSONDecodeError", msg |-> "Expecting value"] }

CaughtValueErrorOnly(exc) == exc \in {"ValueError", "JSONDecodeError"}

\* `except Exception`: every exception of ExcMenu derives from Exception
Caught(exc) == TRUE

QualityBreachIgnoresEnabled(c, n) == n < c.min_visual_assets

\* line 60: quality_checks_enabled and len(raw_visuals) < min_visual_assets
QualityBreach(c, n) == c.quality_checks_enabled /\ n < c.min_visual_assets

InitRun ==
    /\ ResearchIdle
    /\ ScriptIdle
    /\ SyncIdle
    /\ rpc = "load"
    /\ base \in BaseConfigs
    /\ overrides \in SetOverrides
    /\ topic_overrides \in TopicOverrides
    /\ cfg = NoCfg
    /\ lookups = <<>>
    /\ cerror = None
    /\ step = 0
    /\ pipeline_log = <<>>
    /\ success = FALSE
    /\ error_message = None
    /\ video_path = None
    /\ n_visuals = 0
    /\ raised = NoExc

\* ConfigLoader.load, lines 106-114: the base file with the overrides of the
\* topic file applied by _set_nested
WithTopic == SetNested(base, topic_overrides.key, topic_overrides.value)

\* run_generate, line 67: cfg = loader.load(topic_file)
LoadConfig ==
    /\ rpc = "load"
    /\ Build(WithTopic).ok
    /\ cfg' = Build(WithTopic).cfg
    /\ lookups' = lookups \o Build(WithTopic).lookups
    /\ rpc' = IF overrides = NoOverride THEN "ready" ELSE "set"
    /\ UNCHANGED <<base, overrides, topic_overrides, cerror, step, pipeline_log, success,
                   error_message, video_path, n_visuals, raised, nonRunVars>>

\* the exception of _build leaves loader.load and run_generate
LoadConfigRaises ==
    /\ rpc = "load"
    /\ ~Build(WithTopic).ok
    /\ lookups' = lookups \o Build(WithTopic).lookups
    /\ cerror' = Build(WithTopic).error
    /\ rpc' = "crashed"
    /\ UNCHANGED <<base, overrides, topic_overrides, cfg, step, pipeline_log, success,
                   error_message, video_path, n_visuals, raised, nonRunVars>>

\* what lines 72-76 of run_generate pass to _build: the base file, read
\* again from CONFIG_PATH, with the --set override applied
WithSet == SetNested(base, overrides.key, overrides.value)

\* run_generate, lines 70-77: cfg = loader._build(raw)
RebuildWithSet ==
    /\ rpc = "set"
    /\ Build(WithSet).ok
    /\ cfg' = Build(WithSet).cfg
    /\ lookups' = lookups \o Build(WithSet).lookups
    /\ rpc' = "ready"
    /\ UNCHANGED <<base, overrides, topic_overrides, cerror, step, pipeline_log, success,
                   error_message, video_path, n_visuals, raised, nonRunVars>>

RebuildWithSetRaises ==
    /\ rpc = "set"
    /\ ~Build(WithSet).ok
    /\ lookups' = lookups \o Build(WithSet).lookups
    /\ cerror' = Build(WithSet).error
    /\ rpc' = "crashed"
    /\ UNCHANGED <<base, overrides, topic_overrides, cfg, step, pipeline_log, success,
                   error_message, video_path, n_visuals, raised, nonRunVars>>

\* run(), lines 38-47: result = PipelineResult(topic=topic) and the header
\* line. The default of PipelineResult.success is set in utils/models.py;
\* either value is allowed for it.
RunStart ==
    /\ rpc = "ready"
    /\ rpc' = "running"
    /\ step' = 1
    /\ pipeline_log' = <<HeaderMsg>>
    /\ success' \in BOOLEAN
    /\ error_message' = None
    /\ video_path' = None
    /\ UNCHANGED <<base, overrides, topic_overrides, cfg, lookups, cerror, n_visuals, raised,
                   nonRunVars>>

NextStepSkipsVoice(k) == IF k = 3 THEN 5 ELSE k + 1

\* the statements of the try block follow one another: after step k comes
\* step k + 1
NextStep(k) == k + 1

\* steps 1, 2, 4, 5, 6: the step is announced, awaited and its result logged
StepCompletes ==
    /\ rpc = "running"
    /\ step \in {1, 2, 4, 5, 6}
    /\ pipeline_log' = pipeline_log \o <<StartMsg(step), OkMsg(step)>>
    /\ step' = NextStep(step)
    /\ UNCHANGED <<rpc, base, overrides, topic_overrides, cfg, lookups, cerror, success,
                   error_message, video_path, n_visuals, raised, nonRunVars>>

\* lines 57-61: step 3 and the quality check on the number of assets
VisualsCollected ==
    /\ rpc = "running"
    /\ step = 3
    /\ \E n \in 0..MaxVisuals :
        /\ n_visuals' = n
        /\ pipeline_log' =
              pipeline_log \o <<StartMsg(3), OkMsg(3)>>
              \o (IF QualityBreach(cfg, n) THEN <<WarnMsg>> ELSE <<>>)
    /\ step' = NextStep(step)
    /\ UNCHANGED <<rpc, base, overrides, topic_overrides, cfg, lookups, cerror, success,
                   error_message, video_path, raised, nonRunVars>>

\* lines 76-90 and 97: step 7, the Done line, success = True, return
MetadataCompletes ==
    /\ rpc = "running"
    /\ step = 7
    /\ pipeline_log' = pipeline_log \o <<StartMsg(7), OkMsg(7), DoneMsg>>
    /\ video_path' = "video.mp4"
    /\ success' = TRUE
    /\ step' = NextStep(step)
    /\ rpc' = "returned"
    /\ UNCHANGED <<base, overrides, topic_overrides, cfg, lookups, cerror, error_message,
                   n_visuals, raised, nonRunVars>>

\* the awaited call of the current step raises after the step was announced
StepRaises ==
    /\ rpc = "running"
    /\ step \in 1..7
    /\ \E e \in ExcMenu :
        raised' = [step |-> step, exc |-> e.exc, msg |-> e.msg,
                   log |-> Append(pipeline_log, StartMsg(step))]
    /\ pipeline_log' = Append(pipeline_log, StartMsg(step))
    /\ rpc' = "handling"
    /\ UNCHANGED <<base, overrides, topic_overrides, cfg, lookups, cerror, step, success,
                   error_message, video_path, n_visuals, nonRunVars>>

\* lines 92-97: except Exception as exc, then return result
HandleException ==
    /\ rpc = "handling"
    /\ IF Caught(raised.exc)
       THEN /\ error_message' = raised.msg
            /\ success' = FALSE
            /\ rpc' = "returned"
            /\ UNCHANGED cerror
       ELSE /\ cerror' = raised.exc
            /\ rpc' = "crashed"
            /\ UNCHANGED <<error_message, success>>
    /\ UNCHANGED <<base, overrides, topic_overrides, cfg, lookups, step, pipeline_log,
                   video_path, n_visuals, raised, nonRunVars>>

NextRun ==
    \/ LoadConfig
    \/ LoadConfigRaises
    \/ RebuildWithSet
    \/ RebuildWithSetRaises
    \/ RunStart
    \/ StepCompletes
    \/ VisualsCollected
    \/ MetadataCompletes
    \/ StepRaises
    \/ HandleException

SpecRun == InitRun /\ [][NextRun]_vars

\* ------------------------------------------------------- run() claims
Logged(msg) == \E i \in 1..Len(pipeline_log) : pipeline_log[i] = msg

\* C17: an exception raised by a step never leaves run(): run returns with
\* success = False, error_message = str(exc) and the log as it was when the
\* step failed; a run returns success = True only after all seven steps.
C17_RunNeverPropagates ==
    /\ raised # NoExc => (rpc \in {"handling", "returned"} /\ cerror = None)
    /\ rpc = "returned" =>
        IF raised # NoExc
        THEN /\ success = FALSE
             /\ error_message = raised.msg
             /\ pipeline_log = raised.log
             /\ \A j \in 1..raised.step : Logged(StartMsg(j))
             /\ \A j \in 1..(raised.step - 1) : Logged(OkMsg(j))
        ELSE /\ success = TRUE
             /\ step = 8
             /\ \A j \in 1..7 : Logged(OkMsg(j))

\* C17 witness: the sync step raised "boom"; run returned the failed result
\* with the log of the four steps completed before it.
C17_Witness ==
    /\ rpc = "returned"
    /\ raised.step = 5
    /\ success = FALSE
    /\ error_message = "boom"
    /\ Logged(OkMsg(4))
    /\ ~Logged(OkMsg(5))

\* the configuration _build is given last
Effective == IF overrides = NoOverride THEN WithTopic ELSE WithSet

\* a configuration names a provider none of the factories knows
NamesUnknownProvider(raw) ==
    \/ Lower(raw.llm) \notin LlmSupported
    \/ Lower(raw.search) \notin SearchSupported
    \/ Lower(raw.voice) \notin VoiceSupported

UnknownLookup(l) ==
    \/ l.kind = "llm" /\ Lower(l.name) \notin LlmSupported
    \/ l.kind = "search" /\ Lower(l.name) \notin SearchSupported
    \/ l.kind = "voice" /\ Lower(l.name) \notin VoiceSupported

\* C18: a configuration that names an unknown LLM, search or voice provider
\* makes the build of the configuration raise; no step of the pipeline runs,
\* and the factory call that failed is the last one made (no retry).
C18_UnknownProviderFatalAtBuild ==
    /\ NamesUnknownProvider(WithTopic) =>
        (rpc \in {"load", "crashed"} /\ cfg = NoCfg)
    /\ NamesUnknownProvider(Effective) =>
        /\ rpc \in {"load", "set", "crashed"}
        /\ step = 0
        /\ pipeline_log = <<>>
    /\ \A i \in 1..Len(lookups) :
        UnknownLookup(lookups[i]) =>
            /\ i = Len(lookups)
            /\ rpc = "crashed"
            /\ cerror = "ValueError"

\* C18 witness: the search provider "yahoo" is unknown; after the llm
\* provider was built the search factory raised ValueError and nothing ran.
C18_Witness ==
    /\ rpc = "crashed"
    /\ cerror = "ValueError"
    /\ Len(lookups) = 2
    /\ lookups[2] = Lookup("search", "yahoo")
    /\ pipeline_log = <<>>
    /\ step = 0

\* C19: with quality checks enabled and fewer assets than min_visual_assets
\* the warning is logged and the next line logged is the voice step's; the
\* run is not failed by it; with quality checks disabled, or with enough
\* assets, no warning is logged.
C19_QualityBreachWarnsAndContinues ==
    /\ step < 4 => ~Logged(WarnMsg)
    /\ step >= 4 =>
        (Logged(WarnMsg) <=>
            (cfg.quality_checks_enabled /\ n_visuals < cfg.min_visual_assets))
    /\ \A i \in 1..Len(pipeline_log) :
        pipeline_log[i] = WarnMsg =>
            /\ pipeline_log[i - 1] = OkMsg(3)
            /\ (i = Len(pipeline_log) => (rpc = "running" /\ step = 4))
            /\ (i < Len(pipeline_log) => pipeline_log[i + 1] = StartMsg(4))
    /\ (Logged(WarnMsg) /\ rpc = "returned" /\ raised = NoExc) => success = TRUE

\* C19 witness: quality checks are enabled, fewer assets than the minimum
\* were collected, the warning is in the log and the run succeeded.
C19_Witness ==
    /\ rpc = "returned"
    /\ success = TRUE
    /\ cfg.quality_checks_enabled
    /\ n_visuals < cfg.min_visual_assets
    /\ Logged(WarnMsg)
    /\ Logged(StartMsg(4))

\* ============================================== SyncService.assign_timings
\* services/sync_service.py is not part of the sources at hand; run() calls
\* it at orchestrator.py:68 with the script, the voice chunks and the raw
\* visuals. The operation is modelled from section 4.4 of the specification.
\* Times are in ticks of 1/12 s, and every chunk duration of the model is a
\* multiple of every marker count, so k*dur/m is a whole number of ticks.

\* bounds: the sections of a script and the markers of a section
MaxSyncSections == 2
MaxMarkers == 3

\* the actual durations of the voice chunks (5 s and 10 s) and the estimated
\* duration _parse gave each section (2 s)
ChunkDurations == {60, 120}
EstimatedTicks == {24}

SyncSectionId(i) == "s" \o ToString(i)
SyncMarker(i, k) ==
    [marker_type |-> "screenshot", url |-> "m" \o ToString(k),
     description |-> "", section_id |-> SyncSectionId(i)]
SyncSection(i, m, est) ==
    [section_id |-> SyncSectionId(i),
     visual_markers |-> [k \in 1..m |-> SyncMarker(i, k)],
     estimated_duration_seconds |-> est]
VoiceChunk(i, d) == [section_id |-> SyncSectionId(i), duration_seconds |-> d]

\* the markers of a script, as the visuals collected for them
VisualsFor(secs) ==
    UNION { { [section_id |-> secs[i].section_id,
               url |-> secs[i].visual_markers[k].url] :
              k \in 1..Len(secs[i].visual_markers) } : i \in 1..Len(secs) }

\* what collect_visuals may have captured: everything, everything but the
\* first marker of each section, only those, or nothing
AvailableChoices(secs) ==
    { VisualsFor(secs),
      {v \in VisualsFor(secs) : v.url # "m1"},
      {v \in VisualsFor(secs) : v.url = "m1"},
      {} }

\* a marker whose asset was captured
HasAsset(marker, visuals) ==
    [section_id |-> marker.section_id, url |-> marker.url] \in visuals

TimedAsset(marker, start_time, end_time) ==
    [marker |-> marker, start_time |-> start_time, end_time |-> end_time,
     section_id |-> marker.section_id]

SyncDurationsEstimated(secs, cs) ==
    [i \in 1..Len(secs) |-> secs[i].estimated_duration_seconds]

\* orchestrator.py:68 hands the voice chunks to assign_timings: the duration
\* of section i is that of chunk i
SyncDurations(secs, cs) == [i \in 1..Len(cs) |-> cs[i].duration_seconds]

SyncVisualsEveryMarker(secs, raw_visuals) == VisualsFor(secs)

\* orchestrator.py:68 hands raw_visuals, what collect_visuals returned, to
\* assign_timings as the available visuals
SyncVisuals(secs, raw_visuals) == raw_visuals

\* the assets of one section: its markers that have an asset, spread evenly
\* over [start, start + dur)
SpreadEvenly(sec, start, dur, visuals) ==
    LET Kept(mk) == HasAsset(mk, visuals)
        kept == SelectSeq(sec.visual_markers, Kept)
        m == Len(kept)
    IN  [k \in 1..m |->
            TimedAsset(kept[k], start + ((k - 1) * dur) \div m,
                       start + (k * dur) \div m)]

InitSync ==
    /\ ResearchIdle
    /\ ScriptIdle
    /\ RunIdle
    /\ ypc = "start"
    /\ \E n \in 1..MaxSyncSections :
        \E mk \in [1..n -> 0..MaxMarkers], d \in [1..n -> ChunkDurations],
           est \in EstimatedTicks :
            /\ sy_script = [i \in 1..n |-> SyncSection(i, mk[i], est)]
            /\ chunks = [i \in 1..n |-> VoiceChunk(i, d[i])]
    /\ availableVisuals \in AvailableChoices(sy_script)
    /\ sy_i = 1
    /\ sy_start = 0
    /\ timed = <<>>
    /\ sy_calls = 0
    /\ sy_first = <<>>

\* one section: its window starts at the running sum of the chunk durations
TimeSection ==
    /\ ypc = "start"
    /\ sy_i <= Len(sy_script)
    /\ LET dur == SyncDurations(sy_script, chunks)[sy_i]
       IN  /\ timed' = timed \o SpreadEvenly(sy_script[sy_i], sy_start, dur,
                                SyncVisuals(sy_script, availableVisuals))
           /\ sy_start' = sy_start + dur
    /\ sy_i' = sy_i + 1
    /\ UNCHANGED <<ypc, sy_script, chunks, availableVisuals, sy_calls,
                   sy_first, nonSyncVars>>

\* all sections timed: the TimedAssets are returned
SyncReturn ==
    /\ ypc = "start"
    /\ sy_i > Len(sy_script)
    /\ ypc' = "done"
    /\ sy_calls' = sy_calls + 1
    /\ sy_first' = IF sy_calls = 0 THEN timed ELSE sy_first
    /\ UNCHANGED <<sy_script, chunks, availableVisuals, sy_i, sy_start, timed,
                   nonSyncVars>>

\* assign_timings is called once more with the same script, chunks and
\* visuals: the Synchronizer keeps no state, its loop starts afresh
SyncCallAgain ==
    /\ ypc = "done"
    /\ sy_calls = 1
    /\ ypc' = "start"
    /\ sy_i' = 1
    /\ sy_start' = 0
    /\ timed' = <<>>
    /\ UNCHANGED <<sy_script, chunks, availableVisuals, sy_calls, sy_first,
                   nonSyncVars>>

NextSync ==
    \/ TimeSection
    \/ SyncReturn
    \/ SyncCallAgain

SpecSync == InitSync /\ [][NextSync]_vars

\* --------------------------------------------------- assign_timings claims
RECURSIVE ChunkSum(_, _)
\* the sum of the first n chunk durations
ChunkSum(cs, n) ==
    IF n = 0 THEN 0 ELSE ChunkSum(cs, n - 1) + cs[n].duration_seconds

\* the TimedAssets of section i, and its markers that have an asset
AssetsOfSection(i) ==
    LET InSection(a) == a.section_id = sy_script[i].section_id
    IN  SelectSeq(timed, InSection)
Survivors(i) ==
    LET Kept(mk) ==
            [section_id |-> mk.section_id, url |-> mk.url] \in availableVisuals
    IN  SelectSeq(sy_script[i].visual_markers, Kept)

CapturedMarkers(i) ==
    {k \in 1..Len(sy_script[i].visual_markers) :
        [section_id |-> sy_script[i].section_id,
         url |-> sy_script[i].visual_markers[k].url] \in availableVisuals}

StepSequence ==
    [n \in 1..(2 * Len(StepNames)) |->
        IF n % 2 = 1 THEN StartMsg((n + 1) \div 2) ELSE OkMsg(n \div 2)]

\* the entries of the log that announce or complete a step
StepEntries ==
    LET IsStepEntry(msg) ==
            \E n \in 1..Len(StepSequence) : StepSequence[n] = msg
    IN  SelectSeq(pipeline_log, IsStepEntry)

\* the log only grows, and it is left alone once a step has raised
LogGrows ==
    /\ Len(pipeline_log) <= Len(pipeline_log')
    /\ SubSeq(pipeline_log', 1, Len(pipeline_log)) = pipeline_log
    /\ raised # NoExc => (pipeline_log' = pipeline_log /\ step' = step)

\* C22: the step entries of pipeline_log are always a prefix of research,
\* script, visuals, voice, sync, video assembly, metadata, each header after
\* the completion entries of all earlier steps; once a step has raised, it
\* has no completion entry, no later step is announced, and the log does not
\* change any more.
C22_StepsInPipelineOrder ==
    /\ [](/\ Len(StepEntries) <= Len(StepSequence)
          /\ StepEntries = SubSeq(StepSequence, 1, Len(StepEntries))
          /\ raised # NoExc =>
                /\ Len(StepEntries) = 2 * raised.step - 1
                /\ \A j \in (raised.step + 1)..Len(StepNames) :
                    ~Logged(StartMsg(j)))
    /\ [][LogGrows]_vars

\* C22 witness: the visuals step raised after research and script had
\* completed; the voice step was never announced.
C22_Witness ==
    /\ rpc = "returned"
    /\ raised.step = 3
    /\ Logged(OkMsg(1))
    /\ Logged(OkMsg(2))
    /\ Logged(StartMsg(3))
    /\ ~Logged(OkMsg(3))
    /\ ~Logged(StartMsg(4))

\* ------------------------------------------------- run_generate claims
\* the configuration file with the topic-file overrides applied and the
\* --set override applied on top of them
Layered == SetNested(WithTopic, overrides.key, overrides.value)

\* the configuration run_generate hands to the orchestrator is final
ConfigFinal == rpc \in {"ready", "running", "handling", "returned"}

\* C23 as claimed: the configuration run_generate ends with holds the --set
\* value for every key --set names and the topic-file value for every other
\* key the topic file overrides.
C23_Claimed_SetOnTopOfTopicOverrides ==
    ConfigFinal => cfg = Build(Layered).cfg

\* ------------------------------------------------ _parse section_id claims
\* C24 as claimed: a raw section without a section_id key is accepted with
\* the default id "s<index>", its position in the section list, its markers
\* carry that id, and _parse goes on (no KeyError ends it).
C24_Claimed_DefaultSectionId ==
    /\ serror # "KeyError"
    /\ \A i \in 1..Len(sections) :
        "section_id" \notin GetSections(ScriptData)[i].keys =>
            /\ sections[i].section_id = "s" \o ToString(i - 1)
            /\ \A k \in 1..Len(sections[i].visual_markers) :
                sections[i].visual_markers[k].section_id = sections[i].section_id

====
